---- MODULE Spec2Model ----
(***************************************************************************)
(* State-machine model of the Markdown to HTML conversion pipeline of      *)
(* .github/src/markdown_converter.py: EnterpriseMarkdownConverter.convert  *)
(* and the processors it drives (MetadataExtractor, StylesheetManager,     *)
(* TOCProcessor, MarkdownFormatter, PandocConverter, HtmlPostProcessor).   *)
(*                                                                         *)
(* One converter object serves up to MaxRuns calls of convert, one after   *)
(* the other, on one source file and one output directory.  The file       *)
(* system (stylesheet, images directory, temp_output.html, output file)    *)
(* and the metadata cache persist between the calls.  The image downloads  *)
(* of one post-processing run are asyncio tasks; every step between two    *)
(* suspension points of a task is one action.  SpecPair adds a second call *)
(* of convert that runs at the same time on another source file and output *)
(* file of the same directory.                                             *)
(***************************************************************************)
EXTENDS Integers, Sequences, FiniteSets, TLC

(***************************************************************************)
(* Bounds of the model.                                                    *)
(***************************************************************************)
\* most nodes in the body of the rendered document
MaxNodes == 2
\* most calls of convert on the one converter
MaxRuns == 2
\* the configured max_concurrent_downloads (the default, 5, needs six
\* images to be reached; the model configures a smaller pool)
MaxConcurrentDownloads == 1
\* most lines of a source file whose content is enumerated
MaxLines == 3
\* most tokens of a text node of the rendered document
MaxTokens == 4
\* the latest modification time an edit of the source file moves it to
MaxMtime == 1

(***************************************************************************)
(* URLs and paths.  urlparse is modelled by the record itself: scheme,     *)
(* the part before the last path segment, and the last path segment.       *)
(***************************************************************************)
Url(scheme, base, name) == [scheme |-> scheme, base |-> base, name |-> name]

NoUrl == Url("", "", "")
\* two different URLs with the same last path segment
ImgA == Url("http", "a.example", "x.png")
ImgB == Url("https", "b.example", "x.png")
\* a relative reference, not external
ImgRel == Url("", "figures", "y.png")
\* ConversionConfig.logo_img_tag's default src
OasisLogoUrl == Url("https", "docs.oasis-open.org/templates", "OASISLogo-v3.0.png")
\* the src of a logo markup configured by a JSON config file
CustomLogoUrl == Url("https", "c.example", "logo.png")
\* the bare URL of a text node
TextUrl == Url("http", "example.com", "")

images_subdir == "images"
styles_subdir == "styles"
style_css_filename == "markdown-styles-v1.8.1-cn_final.css"

\* the files that can come to exist in the images directory
Filenames == {"x.png", "logo.png", "image.png"}

\* _is_external_url
IsExternalUrl(url) == url.scheme \in {"http", "https"}

\* _is_oasis_logo: the substring "OASISLogo" occurs in the URL
IsOasisLogo(url) == url.name = "OASISLogo-v3.0.png"

\* Path(parsed_url.path).name or 'image.png'
Filename(url) == IF url.name = "" THEN "image.png" ELSE url.name

\* f"{context.config.images_subdir}/{filename}"
RelativePath(filename) == Url("", images_subdir, filename)

(***************************************************************************)
(* Documents.  A serialized document (a file's content) is a head and a    *)
(* body of elements without identity; the parsed tree gives every body     *)
(* node an identity, which is what a download task holds on to.            *)
(***************************************************************************)
NoFile == [kind |-> "nofile"]
PartialFile == [kind |-> "partial"]

HeadTag(tag, name, content) == [tag |-> tag, name |-> name, content |-> content]
Elem(kind, src) == [kind |-> kind, src |-> src]
Node(id, kind, src) == [id |-> id, kind |-> kind, src |-> src]

Html(hasHead, head, body, lang) ==
    [kind |-> "html", hasHead |-> hasHead, head |-> head, body |-> body, lang |-> lang]

\* what pandoc -s -c <stylesheet> --metadata title=... writes into <head>
PandocHead ==
    << HeadTag("meta", "charset", "utf-8"),
       HeadTag("meta", "generator", "pandoc"),
       HeadTag("meta", "viewport", "width=device-width, initial-scale=1.0, user-scalable=yes"),
       HeadTag("title", "", ""),
       HeadTag("style", "", ""),
       HeadTag("link", "stylesheet", "/abs/styles/markdown-styles-v1.8.1-cn_final.css") >>

\* the elements a rendered body is made of
BodyElems ==
    { Elem("img", ImgA), Elem("img", ImgB), Elem("img", ImgRel),
      Elem("img", OasisLogoUrl), Elem("img", CustomLogoUrl), Elem("text", TextUrl) }

SeqsUpTo(S, n) == UNION { [1..k -> S] : k \in 0..n }

\* BeautifulSoup(html_content, 'html.parser')
Parse(doc) ==
    [ hasHead |-> doc.hasHead,
      head |-> doc.head,
      body |-> [i \in 1..Len(doc.body) |-> Node(i, doc.body[i].kind, doc.body[i].src)],
      lang |-> doc.lang ]

\* str(soup)
Serialize(soup) ==
    Html(soup.hasHead, soup.head,
         [i \in 1..Len(soup.body) |-> Elem(soup.body[i].kind, soup.body[i].src)],
         soup.lang)

NoSoup == [hasHead |-> FALSE, head |-> <<>>, body |-> <<>>, lang |-> FALSE]

(***************************************************************************)
(* Text.  A string is a sequence of tokens, each a run of characters that  *)
(* the patterns of the code never split; Join gives the characters.  A     *)
(* source file is the sequence of its lines, content.splitlines().         *)
(***************************************************************************)
\* the characters \s matches
Whitespace == {" ", "\n"}

\* the schemes of url_pattern
Schemes == {"http://", "https://"}

\* the tokens a text node is made of
TextTokens == Schemes \cup {"x", " "}

\* the elements a visited text node is a child of
ParentNames == {"p", "a", "code", "span"}

\* the elements around that parent, the nearest first: none but the body;
\* a link; inline code in a code block (pandoc wraps the tokens of
\* highlighted code in span elements)
AncestorChains == { << >>, << "a" >>, << "code", "pre" >> }

Min(S) == CHOOSE x \in S : \A y \in S : x <= y

RECURSIVE Join(_)
Join(s) == IF s = << >> THEN "" ELSE Head(s) \o Join(Tail(s))

RECURSIVE LStrip(_)
LStrip(s) == IF s # << >> /\ Head(s) \in Whitespace THEN LStrip(Tail(s)) ELSE s

RECURSIVE RStrip(_)
RStrip(s) ==
    IF s # << >> /\ s[Len(s)] \in Whitespace THEN RStrip(SubSeq(s, 1, Len(s) - 1)) ELSE s

\* str.strip()
Strip(s) == RStrip(LStrip(s))

\* '\n'.join(lines), what file.read() returns
RECURSIVE Content(_)
Content(lines) ==
    IF lines = << >> THEN << >>
    ELSE IF Len(lines) = 1 THEN lines[1]
    ELSE lines[1] \o << "\n" >> \o Content(Tail(lines))

\* the result of re.search: whether the pattern matched, and its group 1
NoMatch == [found |-> FALSE, group |-> << >>]
Match(group) == [found |-> TRUE, group |-> group]

\* the first position at or after i that holds no whitespace
RECURSIVE SkipWhitespace(_, _)
SkipWhitespace(c, i) ==
    IF i <= Len(c) /\ c[i] \in Whitespace THEN SkipWhitespace(c, i + 1) ELSE i

\* the position of the line end at or after i
RECURSIVE LineEnd(_, _)
LineEnd(c, i) == IF i <= Len(c) /\ c[i] # "\n" THEN LineEnd(c, i + 1) ELSE i

\* title_pattern = r'^#\s+(.+)$' with re.MULTILINE, tried at position p:
\* ^ is a line start; \s+ runs over spaces and line ends alike, as far as
\* it can; (.+)$ is the rest of the line it stops in.  When the whitespace
\* runs to the end of the content, \s+ gives back a space for (.+).
TitleMatch(c, p) ==
    IF ~( /\ (p = 1 \/ c[p - 1] = "\n")
          /\ c[p] = "#"
          /\ p < Len(c)
          /\ c[p + 1] \in Whitespace )
    THEN NoMatch
    ELSE LET e == SkipWhitespace(c, p + 1)
         IN  IF e <= Len(c) THEN Match(SubSeq(c, e, LineEnd(c, e) - 1))
             ELSE IF \E k \in (p + 2)..Len(c) : c[k] = " " THEN Match(<< " " >>)
             ELSE NoMatch

\* re.search(title_pattern, content, re.MULTILINE) from position p on: the
\* first position that matches, and the title or "-"
RECURSIVE TitleFrom(_, _)
TitleFrom(c, p) ==
    IF p > Len(c) THEN "-"
    ELSE IF TitleMatch(c, p).found THEN Join(Strip(TitleMatch(c, p).group))
    ELSE TitleFrom(c, p + 1)

\* _extract_title
ExtractTitle(c) == TitleFrom(c, 1)

\* re.search(r'<!--.*?description:\s*(.*?)\s*-->', content, re.DOTALL)
\* read left to right from position i: `seeking` is the piece of the
\* pattern still to be found and `start` the position where group 1
\* begins.  The match opens at the first "<!--", '.*?' runs over whatever
\* follows (newlines included) to the nearest "description:", and group 1
\* runs from there to the nearest "-->".
RECURSIVE DescriptionFrom(_, _, _, _)
DescriptionFrom(c, i, seeking, start) ==
    IF i > Len(c) THEN "-"
    ELSE IF c[i] # seeking THEN DescriptionFrom(c, i + 1, seeking, start)
    ELSE IF seeking = "<!--" THEN DescriptionFrom(c, i + 1, "description:", 0)
    ELSE IF seeking = "description:" THEN DescriptionFrom(c, i + 1, "-->", i + 1)
    ELSE Join(Strip(SubSeq(c, start, i - 1)))

\* _extract_description
ExtractDescription(c) == DescriptionFrom(c, 1, "<!--", 0)

\* the number of '#' a line begins with
RECURSIVE CountHashes(_)
CountHashes(line) ==
    IF line # << >> /\ Head(line) = "#" THEN 1 + CountHashes(Tail(line)) ELSE 0

\* re.match(r'^- \[.*\]\(.*\)', line)
IsTocEntry(line) == line # << >> /\ line[1] = "- [a](#a)"

\* re.IGNORECASE
Lower(token) == IF token = "Table of Contents" THEN "table of contents" ELSE token

\* IsTocTitle with a fault: the letter case has to match
IsTocTitleCaseSensitive(line) ==
    LET s == Strip(line)
        n == CountHashes(s)
    IN  n >= 1 /\ LStrip(SubSeq(s, n + 1, Len(s))) = << "Table of Contents" >>

\* re.match(r'^\s*#+\s*Table of Contents\s*$', line, re.IGNORECASE)
IsTocTitle(line) ==
    LET s == Strip(line)
        n == CountHashes(s)
        rest == LStrip(SubSeq(s, n + 1, Len(s)))
    IN  n >= 1 /\ Len(rest) = 1 /\ Lower(rest[1]) = "table of contents"

\* toc_entries, toc_titles
TocEntries(lines) == {i \in 1..Len(lines) : IsTocEntry(lines[i])}
TocTitles(lines) == {i \in 1..Len(lines) : IsTocTitle(lines[i])}

\* heading_level: re.search(r'^(#+)\s+.*', lines[0]), one level deeper, or 2
HeadingLevel(lines) ==
    IF lines = << >> THEN 2
    ELSE LET n == CountHashes(lines[1])
         IN  IF n >= 1 /\ Len(lines[1]) > n /\ lines[1][n + 1] \in Whitespace
             THEN n + 1
             ELSE 2

\* toc_title = '#' * heading_level + ' Table of Contents'
TocTitle(level) == [i \in 1..level |-> "#"] \o << " ", "Table of Contents" >>

\* FirstTocIndex with a fault: the last entry line is taken
LastTocIndex(lines) == CHOOSE i \in TocEntries(lines) : \A j \in TocEntries(lines) : j <= i

\* first_toc_index = toc_entries[0]
FirstTocIndex(lines) == Min(TocEntries(lines))

\* lines.insert(index, line)
InsertAt(lines, index, line) ==
    SubSeq(lines, 1, index - 1) \o << line >> \o SubSeq(lines, index, Len(lines))

\* the lines TOCProcessor.process writes back
WithTocTitle(lines) == InsertAt(lines, FirstTocIndex(lines), TocTitle(HeadingLevel(lines)))

\* a source file: whether it exists and can be opened, its lines, st_mtime
SourceFile(lines) == [exists |-> TRUE, readable |-> TRUE, lines |-> lines, mtime |-> 0]
MissingSource == [exists |-> FALSE, readable |-> FALSE, lines |-> << >>, mtime |-> 0]

\* st_size
Size(src) == Len(Join(Content(src.lines)))

\* st_mtime after a write at or after time m: the clock's tick may be the same
Touch(m) == {m, m + 1}

\* lines of the source files
HeadingT == << "#", " ", "T" >>
HeadingU == << "#", " ", "U" >>
SubHeading == << "#", "#", " ", "T" >>
LoneHash == << "#" >>
TextLine == << "T" >>
DescriptionD == << "<!--", " ", "description:", " ", "d", " ", "-->" >>
OtherComment == << "<!--", " ", "T", " ", "-->" >>
DescriptionText == << "description:", " ", "d" >>
TocEntry == << "- [a](#a)" >>
IndentedTocEntry == << " ", "- [a](#a)" >>
LowerTocTitle == << "#", "table of contents" >>

\* the lines an edit of the source file leaves: another title of the same
\* length, the first title again, a line more
EditedLines == { << HeadingU >>, << HeadingT >>, << HeadingT, TextLine >> }

\* the lines the enumerated source files are made of
Lines ==
    { HeadingT, SubHeading, LoneHash, TextLine, DescriptionD, OtherComment,
      DescriptionText, TocEntry, IndentedTocEntry, LowerTocTitle, TocTitle(2) }

(***************************************************************************)
(* State.                                                                  *)
(***************************************************************************)
VARIABLES
    cfg,          \* ConversionConfig of the converter (never mutated)
    source,       \* the Markdown source file md_file
    rendered,     \* the document pandoc renders from the source
    args,         \* format_markdown, convert_to_html of the running call
    run,          \* calls of convert so far
    pc,           \* where the running call is
    started,      \* stages whose process() was entered, in order (this call)
    finished,     \* stages whose process() returned, in order (this call)
    raised,       \* the stage whose process() raised, "none" if none did
    cause,        \* what raised there
    error,        \* the class of the exception convert re-raised
    meta,         \* context.html_title, context.meta_description
    cache,        \* MetadataExtractor._cache
    stylesheet,   \* styles_dir / style_css_filename
    images,       \* the files of images_dir
    temp,         \* output_file.parent / temp_output.html
    output,       \* output_file
    soup,         \* the parsed tree of HtmlPostProcessor.process
    tasks,        \* the _process_single_image coroutines, by node id
    requests,     \* GET requests issued in this call, by derived filename
    download,     \* outcome of this call's stylesheet download
    before,       \* images_dir and output_file as the call found them
    outputs,      \* the documents written by the successful calls, in order
    text_node,    \* a text node _convert_urls_to_links visits, and its parent
    siblings,     \* the nodes inserted before that parent, in document order
    other         \* a second call of convert that runs at the same time

vars ==
    << cfg, source, rendered, args, run, pc, started, finished, raised, cause, error,
       meta, cache, stylesheet, images, temp, output, soup, tasks, requests,
       download, before, outputs, text_node, siblings, other >>

envVars == << cfg, rendered >>
fsVars == << stylesheet, images, temp, output >>
postVars == << soup, tasks, requests >>
linkVars == << text_node, siblings >>

Bytes(url) == [kind |-> "bytes", of |-> url]

\* the source files a conversion is started on: missing; without title,
\* description or TOC; with all three, the TOC untitled; with a TOC whose
\* title is in lower case
Sources ==
    { MissingSource,
      SourceFile(<< TextLine >>),
      SourceFile(<< HeadingT, DescriptionD, TocEntry >>),
      SourceFile(<< LowerTocTitle, TocEntry >>) }

\* the src of the img of ConversionConfig.logo_img_tag
LogoMarkups == {OasisLogoUrl, CustomLogoUrl}

Configs ==
    [ cache_images : BOOLEAN,
      logo_img_tag : LogoMarkups,
      max_concurrent_downloads : {MaxConcurrentDownloads} ]

\* ConversionConfig() with its defaults (and the model's pool size)
DefaultConfig ==
    [ cache_images |-> TRUE,
      logo_img_tag |-> OasisLogoUrl,
      max_concurrent_downloads |-> MaxConcurrentDownloads ]

\* the rendered documents: with the head pandoc -s writes, or a fragment
\* without a head element
RenderedDocs ==
    { Html(h[1], h[2], b, FALSE) :
        h \in {<<TRUE, PandocHead>>, <<FALSE, <<>> >>},
        b \in SeqsUpTo(BodyElems, MaxNodes) }

\* what pandoc renders from a source that holds only images of one URL
PlainDocs ==
    { Html(TRUE, PandocHead, b, FALSE) : b \in SeqsUpTo({Elem("img", ImgA)}, MaxNodes) }

NoArgs == [format_markdown |-> FALSE, convert_to_html |-> FALSE]
NoMeta == [title |-> "-", description |-> "-"]
NoRequests == [f \in Filenames |-> 0]
NoImages == [f \in Filenames |-> NoFile]
\* no second call of convert
NoOther == [pc |-> "none", meta |-> NoMeta, soup |-> NoSoup, output |-> NoFile]
\* no text node is being visited
NoTextNode == [string |-> << >>, parent |-> "none", above |-> << >>, attached |-> FALSE]

\* the converter after __init__, in a fresh output directory
Init ==
    /\ cfg = DefaultConfig
    /\ source \in Sources
    /\ rendered \in PlainDocs
    /\ args = NoArgs
    /\ run = 0
    /\ pc = "idle"
    /\ started = <<>>
    /\ finished = <<>>
    /\ raised = "none"
    /\ cause = "none"
    /\ error = "none"
    /\ meta = NoMeta
    /\ cache = {}
    /\ stylesheet = "absent"
    /\ images = NoImages
    /\ temp = NoFile
    /\ output = NoFile
    /\ soup = NoSoup
    /\ tasks = <<>>
    /\ requests = NoRequests
    /\ download = "none"
    /\ before = [images |-> images, output |-> output, temp |-> temp]
    /\ outputs = <<>>
    /\ text_node = NoTextNode
    /\ siblings = <<>>
    /\ other = NoOther

\* HtmlPostProcessor.process is about to be called by convert: the stages
\* before it have returned, pandoc has written temp_output.html, and the
\* images directory is empty or holds a file an earlier conversion left
InitPost ==
    /\ cfg \in Configs
    /\ source = [SourceFile(<< HeadingT, DescriptionD, TocTitle(2), TocEntry >>)
                    EXCEPT !.mtime = 1]
    /\ rendered \in RenderedDocs
    /\ args = [format_markdown |-> FALSE, convert_to_html |-> TRUE]
    /\ run = 1
    /\ pc = "postprocess"
    /\ started = << "metadata", "stylesheet", "toc", "pandoc" >>
    /\ finished = started
    /\ raised = "none"
    /\ cause = "none"
    /\ error = "none"
    /\ meta \in {NoMeta, [title |-> "T", description |-> "d"]}
    /\ cache = {}
    /\ stylesheet = "complete"
    /\ images \in {NoImages, [NoImages EXCEPT !["x.png"] = Bytes(ImgA)]}
    /\ temp = rendered
    /\ output = NoFile
    /\ soup = NoSoup
    /\ tasks = <<>>
    /\ requests = NoRequests
    /\ download = "none"
    /\ before = [images |-> images, output |-> output, temp |-> temp]
    /\ outputs = <<>>
    /\ text_node = NoTextNode
    /\ siblings = <<>>
    /\ other = NoOther

\* _convert_urls_to_links has found a text node of the rendered document
InitText ==
    /\ cfg = DefaultConfig
    /\ source = SourceFile(<< TextLine >>)
    /\ rendered = Html(TRUE, PandocHead, << Elem("text", TextUrl) >>, FALSE)
    /\ args = [format_markdown |-> FALSE, convert_to_html |-> TRUE]
    /\ run = 1
    /\ pc = "links"
    /\ started = << "metadata", "stylesheet", "toc", "pandoc", "postprocess" >>
    /\ finished = << "metadata", "stylesheet", "toc", "pandoc" >>
    /\ raised = "none"
    /\ cause = "none"
    /\ error = "none"
    /\ meta = NoMeta
    /\ cache = {}
    /\ stylesheet = "complete"
    /\ images = NoImages
    /\ temp = rendered
    /\ output = NoFile
    /\ soup = Parse(rendered)
    /\ tasks = <<>>
    /\ requests = NoRequests
    /\ download = "none"
    /\ before = [images |-> images, output |-> output, temp |-> NoFile]
    /\ outputs = <<>>
    /\ text_node \in { [string |-> s, parent |-> p, above |-> a, attached |-> TRUE] :
                         s \in SeqsUpTo(TextTokens, MaxTokens), p \in ParentNames,
                         a \in AncestorChains }
    /\ siblings = <<>>
    /\ other = NoOther

\* convert(md_file, output_file, convert_to_html=False) has created its
\* context, on any source file of up to MaxLines lines, in an output
\* directory that holds the stylesheet
InitSource ==
    /\ cfg = DefaultConfig
    /\ source \in { SourceFile(ls) : ls \in SeqsUpTo(Lines, MaxLines) }
    /\ rendered = Html(TRUE, PandocHead, <<>>, FALSE)
    /\ args = NoArgs
    /\ run = 1
    /\ pc = "metadata"
    /\ started = <<>>
    /\ finished = <<>>
    /\ raised = "none"
    /\ cause = "none"
    /\ error = "none"
    /\ meta = NoMeta
    /\ cache = {}
    /\ stylesheet = "complete"
    /\ images = NoImages
    /\ temp = NoFile
    /\ output = NoFile
    /\ soup = NoSoup
    /\ tasks = <<>>
    /\ requests = NoRequests
    /\ download = "none"
    /\ before = [images |-> images, output |-> output, temp |-> temp]
    /\ outputs = <<>>
    /\ text_node = NoTextNode
    /\ siblings = <<>>
    /\ other = NoOther

\* the converter after __init__, on a source file its author goes on
\* editing between the calls of convert
InitCache ==
    /\ cfg = DefaultConfig
    /\ source = SourceFile(<< HeadingT >>)
    /\ rendered = Html(TRUE, PandocHead, << Elem("img", ImgA) >>, FALSE)
    /\ args = NoArgs
    /\ run = 0
    /\ pc = "idle"
    /\ started = <<>>
    /\ finished = <<>>
    /\ raised = "none"
    /\ cause = "none"
    /\ error = "none"
    /\ meta = NoMeta
    /\ cache = {}
    /\ stylesheet \in {"absent", "complete"}
    /\ images = NoImages
    /\ temp = NoFile
    /\ output = NoFile
    /\ soup = NoSoup
    /\ tasks = <<>>
    /\ requests = NoRequests
    /\ download = "none"
    /\ before = [images |-> images, output |-> output, temp |-> temp]
    /\ outputs = <<>>
    /\ text_node = NoTextNode
    /\ siblings = <<>>
    /\ other = NoOther

(***************************************************************************)
(* EnterpriseMarkdownConverter.convert: the stage sequence.                *)
(***************************************************************************)
\* AfterStage with a fault: the formatter runs whatever format_markdown is,
\* and the renderer whatever convert_to_html is
AfterStageUnguarded(stage, a) ==
    CASE stage = "metadata" -> "stylesheet"
      [] stage = "stylesheet" -> "toc"
      [] stage = "toc" -> "formatter"
      [] stage = "formatter" -> "pandoc"
      [] stage = "pandoc" -> "postprocess"
      [] OTHER -> "done"

\* AfterStage with a fault: the renderer runs whatever convert_to_html is
AfterStageAlwaysHtml(stage, a) ==
    CASE stage = "metadata" -> "stylesheet"
      [] stage = "stylesheet" -> "toc"
      [] stage = "toc" -> IF a.format_markdown THEN "formatter" ELSE "pandoc"
      [] stage = "formatter" -> "pandoc"
      [] stage = "pandoc" -> "postprocess"
      [] OTHER -> "done"

\* the stage convert enters after `stage` returned
AfterStage(stage, a) ==
    CASE stage = "metadata" -> "stylesheet"
      [] stage = "stylesheet" -> "toc"
      [] stage = "toc" ->
            IF a.format_markdown THEN "formatter"
            ELSE IF a.convert_to_html THEN "pandoc" ELSE "done"
      [] stage = "formatter" -> IF a.convert_to_html THEN "pandoc" ELSE "done"
      [] stage = "pandoc" -> "postprocess"
      [] OTHER -> "done"

\* process() of `stage` is entered
Enter(stage) == started' = Append(started, stage)

\* process() of `stage` returns its context
Return(stage) ==
    /\ finished' = Append(finished, stage)
    /\ pc' = AfterStage(stage, args)
    /\ UNCHANGED << raised, cause, error >>

\* process() of `stage` raises; convert logs and re-raises
Raise(stage, why, class) ==
    /\ pc' = "failed"
    /\ raised' = stage
    /\ cause' = why
    /\ error' = class
    /\ UNCHANGED finished

\* convert is called: the context is created
StartConvert ==
    /\ pc \in {"idle", "done", "failed"}
    /\ run < MaxRuns
    /\ run' = run + 1
    /\ \E f \in BOOLEAN, h \in BOOLEAN :
          args' = [format_markdown |-> f, convert_to_html |-> h]
    /\ pc' = "metadata"
    /\ started' = <<>>
    /\ finished' = <<>>
    /\ raised' = "none"
    /\ cause' = "none"
    /\ error' = "none"
    /\ meta' = NoMeta
    /\ soup' = NoSoup
    /\ tasks' = <<>>
    /\ requests' = NoRequests
    /\ download' = "none"
    /\ before' = [images |-> images, output |-> output, temp |-> temp]
    /\ UNCHANGED << envVars, linkVars, other, source, cache, fsVars, outputs >>

\* _get_file_hash: the fingerprint of path, st_mtime and st_size
FileHash(src) == << src.mtime, Size(src) >>

\* _extract_title, _extract_description on the file's content
Extract(src) ==
    [ title |-> ExtractTitle(Content(src.lines)),
      description |-> ExtractDescription(Content(src.lines)) ]

\* MetadataExtractor.process: stat() of a missing file raises outside the
\* try block; the cache is asked before the file is opened; an error of
\* open or read is wrapped
Metadata ==
    /\ pc = "metadata"
    /\ Enter("metadata")
    /\ IF ~source.exists
       THEN /\ Raise("metadata", "source", "FileNotFoundError")
            /\ UNCHANGED << meta, cache >>
       ELSE IF \E e \in cache : e.key = FileHash(source)
       THEN /\ meta' = (CHOOSE e \in cache : e.key = FileHash(source)).data
            /\ Return("metadata")
            /\ UNCHANGED cache
       ELSE IF ~source.readable
       THEN /\ Raise("metadata", "unreadable", "ConversionError")
            /\ UNCHANGED << meta, cache >>
       ELSE /\ meta' = Extract(source)
            /\ cache' = cache \cup {[key |-> FileHash(source), data |-> Extract(source)]}
            /\ Return("metadata")
    /\ UNCHANGED << envVars, linkVars, other, source, args, run, fsVars, postVars, download,
                    before, outputs >>

\* DownloadFailed with a fault: the failure is logged and not raised
DownloadFailedSwallowed ==
    /\ Return("stylesheet")

\* _download_stylesheet's except branch: log, raise ConversionError
DownloadFailed ==
    /\ Raise("stylesheet", "download", "ConversionError")

\* StylesheetManager.process: an existing file (whatever it holds) is kept;
\* a missing one is downloaded, and the download fails before or while the
\* file is written.  _commit_stylesheet swallows its own errors and changes
\* nothing the conversion reads.
Stylesheet ==
    /\ pc = "stylesheet"
    /\ Enter("stylesheet")
    /\ \/ /\ stylesheet # "absent"
          /\ Return("stylesheet")
          /\ UNCHANGED << stylesheet, download >>
       \/ /\ stylesheet = "absent"
          /\ download' = "ok"
          /\ stylesheet' = "complete"
          /\ Return("stylesheet")
       \/ /\ stylesheet = "absent"
          /\ download' = "failed"
          /\ \/ UNCHANGED stylesheet
             \/ stylesheet' = "partial"
          /\ DownloadFailed
    /\ UNCHANGED << envVars, linkVars, other, source, args, run, meta, cache, images, temp, output,
                    postVars, before, outputs >>

\* TOCProcessor.process: the file is opened outside any try block; a TOC
\* without a title gets one, and the lines are written back
Toc ==
    /\ pc = "toc"
    /\ Enter("toc")
    /\ IF ~(source.exists /\ source.readable)
       THEN /\ Raise("toc", "read", "OSError")
            /\ UNCHANGED source
       ELSE /\ IF TocEntries(source.lines) # {} /\ TocTitles(source.lines) = {}
               THEN \E t \in Touch(source.mtime) :
                       source' = [source EXCEPT !.lines = WithTocTitle(@), !.mtime = t]
               ELSE UNCHANGED source
            /\ Return("toc")
    /\ UNCHANGED << envVars, linkVars, other, args, run, meta, cache, fsVars, postVars, download,
                    before, outputs >>

\* MarkdownFormatter.process: prettier exits with 0 or not (its rewriting
\* of the source keeps title, description and TOC lines)
Formatter ==
    /\ pc = "formatter"
    /\ Enter("formatter")
    /\ \/ Return("formatter")
       \/ Raise("formatter", "prettier", "ConversionError")
    /\ UNCHANGED << envVars, linkVars, other, source, args, run, meta, cache, fsVars, postVars,
                    download, before, outputs >>

\* PandocConverter.process
Pandoc ==
    /\ pc = "pandoc"
    /\ Enter("pandoc")
    /\ IF stylesheet = "absent"
       THEN /\ Raise("pandoc", "stylesheet", "ConversionError")
            /\ UNCHANGED temp
       ELSE \/ /\ temp' = rendered
               /\ Return("pandoc")
            \/ /\ Raise("pandoc", "pandoc", "ConversionError")
               /\ UNCHANGED temp
    /\ UNCHANGED << envVars, linkVars, other, source, args, run, meta, cache, stylesheet, images,
                    output, postVars, download, before, outputs >>

(***************************************************************************)
(* HtmlPostProcessor: the transformations of the parsed tree.              *)
(***************************************************************************)
\* InsertFirst with a fault: the tag becomes the last child of the head
InsertLast(head, tag) == Append(head, tag)

\* soup.head.insert(0, tag)
InsertFirst(head, tag) == <<tag>> \o head

MetaDescription(description) == HeadTag("meta", "description", description)
MetaViewport == HeadTag("meta", "viewport", "width=device-width, initial-scale=1.0")
MetaCharset == HeadTag("meta", "charset", "utf-8")
MetaGenerator == HeadTag("meta", "generator", "Enterprise Markdown Converter")
MetaAuthor == HeadTag("meta", "author", "OASIS Technical Committee")

\* _add_meta_tags
AddMetaTags(s, m) ==
    IF ~s.hasHead THEN s
    ELSE LET h0 == IF m.description # "-"
                   THEN InsertFirst(s.head, MetaDescription(m.description))
                   ELSE s.head
             h1 == InsertFirst(h0, MetaViewport)
             h2 == InsertFirst(h1, MetaCharset)
             h3 == InsertFirst(h2, MetaGenerator)
             h4 == InsertFirst(h3, MetaAuthor)
         IN  [s EXCEPT !.head = h4]

\* img_tag['src'] = relative_path
SetSrc(body, id, src) ==
    [k \in 1..Len(body) |-> IF body[k].id = id THEN [body[k] EXCEPT !.src = src] ELSE body[k]]

\* img_tag.decompose()
Decompose(body, id) == SelectSeq(body, LAMBDA n : n.id # id)

\* _convert_urls_to_links: a text node holding a bare URL, in a paragraph,
\* is replaced by a link to that URL
ConvertUrlsToLinks(s) ==
    [s EXCEPT !.body =
        [k \in 1..Len(s.body) |->
            IF s.body[k].kind = "text" /\ IsExternalUrl(s.body[k].src)
            THEN Node(0, "a", s.body[k].src)
            ELSE s.body[k]]]

HasLogo(body) ==
    \E k \in 1..Len(body) : body[k].kind = "img" /\ IsOasisLogo(body[k].src)

\* _add_oasis_logo
AddOasisLogo(s, c) ==
    IF ~HasLogo(s.body)
    THEN [s EXCEPT !.body = <<Node(0, "img", c.logo_img_tag)>> \o @]
    ELSE s

\* os.path.relpath(styles_dir / style_css_filename, output_file.parent)
StylesheetRelative == "styles/markdown-styles-v1.8.1-cn_final.css"

\* _inject_custom_styles
InjectCustomStyles(s) ==
    IF ~s.hasHead THEN s
    ELSE [s EXCEPT !.head =
            Append(SelectSeq(@, LAMBDA t : t.tag # "style"),
                   HeadTag("link", "stylesheet", StylesheetRelative))]

\* _optimize_html_structure: the html element gets lang="en" (the model's
\* nodes carry no alt attribute and the body holds no hr element)
OptimizeHtmlStructure(s) == [s EXCEPT !.lang = TRUE]

(***************************************************************************)
(* _convert_urls_to_links on one text node.                                *)
(***************************************************************************)
\* url_pattern = re.compile(r'(https?://\S+)') matches at position i
MatchesAt(string, i) ==
    i < Len(string) /\ string[i] \in Schemes /\ string[i + 1] \notin Whitespace

\* the position after the run \S+ takes from position i
RECURSIVE SkipNonWhitespace(_, _)
SkipNonWhitespace(string, i) ==
    IF i <= Len(string) /\ string[i] \notin Whitespace
    THEN SkipNonWhitespace(string, i + 1)
    ELSE i

\* url_pattern.finditer(text_node) from position i: the spans of the
\* matches, from left to right, none overlapping (positions count from 1,
\* end is the position after the match)
RECURSIVE FindIter(_, _)
FindIter(string, i) ==
    IF i > Len(string) THEN << >>
    ELSE IF MatchesAt(string, i)
    THEN << [start |-> i, end |-> SkipNonWhitespace(string, i + 1)] >>
            \o FindIter(string, SkipNonWhitespace(string, i + 1))
    ELSE FindIter(string, i + 1)

\* find_all(string=url_pattern) returns the text node
HasUrl(string) == FindIter(string, 1) # << >>

\* text_node[start:end]
Slice(string, start, end) == SubSeq(string, start, end - 1)

\* a piece of text, and soup.new_tag('a', href=url, ...) with a_tag.string = url
TextPiece(string) == [kind |-> "text", string |-> string, href |-> << >>]
LinkTag(url) == [kind |-> "a", string |-> url, href |-> url]

\* LastIndex with a fault: the text after a link starts at the link's start
LastIndexAtStart(span) == span.start

\* last_index = end
LastIndex(span) == span.end

\* new_content: the loop over the matches, and the remaining text
RECURSIVE NewContent(_, _, _)
NewContent(string, spans, last_index) ==
    IF spans = << >>
    THEN IF last_index <= Len(string)
         THEN << TextPiece(Slice(string, last_index, Len(string) + 1)) >>
         ELSE << >>
    ELSE LET span == Head(spans)
         IN  (IF span.start > last_index
              THEN << TextPiece(Slice(string, last_index, span.start)) >>
              ELSE << >>)
             \o << LinkTag(Slice(string, span.start, span.end)) >>
             \o NewContent(string, Tail(spans), LastIndex(span))

\* one text node of _convert_urls_to_links: a node without a URL is not
\* found; a node in a link or in code is skipped; else every item of
\* new_content goes through parent.insert_before(item, text_node), which
\* makes the item, and the text node after it, the siblings before the
\* parent element, and text_node.extract() then removes the text node
ConvertTextNode ==
    /\ pc = "links"
    /\ pc' = "linked"
    /\ IF HasUrl(text_node.string) /\ text_node.parent \notin {"a", "code", "pre"}
       THEN /\ siblings' = siblings \o NewContent(text_node.string,
                                                  FindIter(text_node.string, 1), 1)
            /\ text_node' = [text_node EXCEPT !.attached = FALSE]
       ELSE UNCHANGED linkVars
    /\ UNCHANGED << envVars, other, source, args, run, started, finished, raised, cause,
                    error, meta, cache, fsVars, postVars, download, before, outputs >>

(***************************************************************************)
(* HtmlPostProcessor.process and the download tasks of _process_images.    *)
(***************************************************************************)
\* a task: where it is, how it ended, and its place in the order of
\* completion (0: not completed, or completed before the first suspension)
NoTask == [st |-> "none", res |-> "none", at |-> 0]

TaskIds == {i \in 1..Len(tasks) : tasks[i].st # "none"}
InFlight == {i \in 1..Len(tasks) : tasks[i].st = "inflight"}

\* AllDone with a fault: the wait ends with the first task that ends
AllDoneFirstCompleted ==
    \/ \A i \in 1..Len(tasks) : tasks[i].st \in {"none", "done"}
    \/ \E i \in 1..Len(tasks) : tasks[i].st = "done"

\* asyncio.gather(*tasks, return_exceptions=True) returns
AllDone == \A i \in 1..Len(tasks) : tasks[i].st \in {"none", "done"}

Completed == Cardinality({i \in 1..Len(tasks) : tasks[i].at > 0})

\* the node the task of image i holds (its img_tag parameter)
NodeOf(i) == CHOOSE n \in {soup.body[k] : k \in 1..Len(soup.body)} : n.id = i
Present(i) == \E k \in 1..Len(soup.body) : soup.body[k].id = i

\* process up to the first suspension of _process_images: the rendered file
\* is read and parsed, the meta tags are added
PostRead ==
    /\ pc = "postprocess"
    /\ Enter("postprocess")
    /\ IF temp.kind # "html"
       THEN /\ Raise("postprocess", "read", "OSError")
            /\ UNCHANGED << soup, tasks >>
       ELSE /\ soup' = AddMetaTags(Parse(temp), meta)
            /\ tasks' = [i \in 1..Len(temp.body) |-> NoTask]
            /\ pc' = "images"
            /\ UNCHANGED << finished, raised, cause, error >>
    /\ UNCHANGED << envVars, linkVars, other, source, args, run, meta, cache, fsVars, requests,
                    download, before, outputs >>

\* NeedsFetch with a fault: the cache is never consulted
NeedsFetchAlways(filename) == TRUE

\* not local_path.exists() or not context.config.cache_images
NeedsFetch(filename) == images[filename] = NoFile \/ ~cfg.cache_images

\* the img elements _process_images creates a task for
IsTask(n) == n.kind = "img" /\ IsExternalUrl(n.src) /\ ~IsOasisLogo(n.src)

\* the body with the src of every image found in the cache set to its
\* relative path
Localized(body) ==
    [k \in 1..Len(body) |->
        IF IsTask(body[k]) /\ ~NeedsFetch(Filename(body[k].src))
        THEN Node(body[k].id, "img", RelativePath(Filename(body[k].src)))
        ELSE body[k]]

\* _process_images up to gather: one coroutine per external image that is
\* not the logo, each run to its first suspension, the session.get; the
\* coroutine of an image found in the cache runs to its end
ProcessImages ==
    /\ pc = "images"
    /\ tasks' = [i \in 1..Len(tasks) |->
                    IF ~IsTask(NodeOf(i)) THEN NoTask
                    ELSE IF NeedsFetch(Filename(NodeOf(i).src))
                    THEN [st |-> "waiting", res |-> "none", at |-> 0]
                    ELSE [st |-> "done", res |-> "cached", at |-> 0]]
    /\ soup' = [soup EXCEPT !.body = Localized(soup.body)]
    /\ pc' = "gather"
    /\ UNCHANGED << envVars, linkVars, other, source, args, run, started, finished, raised, cause,
                    error, meta, cache, fsVars, requests, download, before, outputs >>

\* CanAcquire with a fault: the connector has no limit
CanAcquireUnlimited == TRUE

\* aiohttp.TCPConnector(limit=max_concurrent_downloads): a request gets a
\* connection only while fewer than limit are in use
CanAcquire == Cardinality(InFlight) < cfg.max_concurrent_downloads

\* session.get(src) of task i gets a connection and sends its request
Acquire(i) ==
    /\ pc = "gather"
    /\ tasks[i].st = "waiting"
    /\ CanAcquire
    /\ tasks' = [tasks EXCEPT ![i].st = "inflight"]
    /\ requests' = [requests EXCEPT ![Filename(NodeOf(i).src)] = @ + 1]
    /\ UNCHANGED << envVars, linkVars, other, source, args, run, pc, started, finished, raised, cause,
                    error, meta, cache, fsVars, soup, download, before, outputs >>

\* TargetOf with a fault: every task holds the last img of the loop
TargetOfLast(i) == Len(tasks)

\* the img element task i updates: the img_tag it was created with
TargetOf(i) == i

\* task i: the response is read and written to local_path, the src is set
FetchOk(i) ==
    /\ pc = "gather"
    /\ tasks[i].st = "inflight"
    /\ images' = [images EXCEPT ![Filename(NodeOf(i).src)] = Bytes(NodeOf(i).src)]
    /\ soup' = [soup EXCEPT !.body =
                    SetSrc(@, TargetOf(i), RelativePath(Filename(NodeOf(i).src)))]
    /\ tasks' = [tasks EXCEPT ![i] = [st |-> "done", res |-> "ok", at |-> Completed + 1]]
    /\ UNCHANGED << envVars, linkVars, other, source, args, run, pc, started, finished, raised, cause,
                    error, meta, cache, stylesheet, temp, output, requests, download, before,
                    outputs >>

\* OnImageFailure with a fault: the failed image stays in the document
OnImageFailureKeep(body, i) == body

\* OnImageFailure with a fault: the failure also drops the images whose
\* downloads have not completed
OnImageFailureCancel(body, i) ==
    SelectSeq(body, LAMBDA n : n.id # i /\ (n.id = 0 \/ tasks[n.id].st \in {"none", "done"}))

\* _process_single_image's except branch: log, img_tag.decompose()
OnImageFailure(body, i) == Decompose(body, i)

\* task i fails: no connection or no response within the timeout, an error
\* status, or (with the response read) an error writing local_path
FetchFailed(i) ==
    /\ pc = "gather"
    /\ \/ /\ tasks[i].st \in {"waiting", "inflight"}
          /\ UNCHANGED images
       \/ /\ tasks[i].st = "inflight"
          /\ images' = [images EXCEPT ![Filename(NodeOf(i).src)] = PartialFile]
    /\ soup' = [soup EXCEPT !.body = OnImageFailure(@, i)]
    /\ tasks' = [tasks EXCEPT ![i] = [st |-> "done", res |-> "failed", at |-> Completed + 1]]
    /\ UNCHANGED << envVars, linkVars, other, source, args, run, pc, started, finished, raised, cause,
                    error, meta, cache, stylesheet, temp, output, requests, download, before,
                    outputs >>

\* gather has returned: links, logo, stylesheet link, structural repair
Transform ==
    /\ pc = "gather"
    /\ AllDone
    /\ soup' = OptimizeHtmlStructure(
                  InjectCustomStyles(AddOasisLogo(ConvertUrlsToLinks(soup), cfg)))
    /\ pc' = "write"
    /\ UNCHANGED << envVars, linkVars, other, source, args, run, started, finished, raised, cause,
                    error, meta, cache, fsVars, tasks, requests, download, before, outputs >>

\* the final document is written and the temp file unlinked; or opening
\* the output file fails; or writing fails after open truncated the file
WriteOutput ==
    /\ pc = "write"
    /\ \/ /\ output' = Serialize(soup)
          /\ temp' = NoFile
          /\ outputs' = Append(outputs, Serialize(soup))
          /\ Return("postprocess")
       \/ /\ Raise("postprocess", "write", "OSError")
          /\ UNCHANGED << output, temp, outputs >>
       \/ /\ Raise("postprocess", "write", "OSError")
          /\ output' = PartialFile
          /\ UNCHANGED << temp, outputs >>
    /\ UNCHANGED << envVars, linkVars, other, source, args, run, started, meta, cache, stylesheet,
                    images, postVars, download, before >>

(***************************************************************************)
(* The source file between two calls of convert.                           *)
(***************************************************************************)
\* the file is rewritten: st_size follows the content, st_mtime is the time
\* of the write
Modify ==
    /\ pc \in {"idle", "done", "failed"}
    /\ source.exists
    /\ \E ls \in EditedLines, t \in Touch(source.mtime) :
          /\ t <= MaxMtime
          /\ ls # source.lines
          /\ source' = [source EXCEPT !.lines = ls, !.mtime = t]
    /\ UNCHANGED << envVars, linkVars, other, args, run, pc, started, finished, raised, cause,
                    error, meta, cache, fsVars, postVars, download, before, outputs >>

\* the permission to read the file is taken away or given back: st_mtime
\* and st_size stay
Chmod ==
    /\ pc \in {"idle", "done", "failed"}
    /\ source.exists
    /\ source' = [source EXCEPT !.readable = ~@]
    /\ UNCHANGED << envVars, linkVars, other, args, run, pc, started, finished, raised, cause,
                    error, meta, cache, fsVars, postVars, download, before, outputs >>

Next ==
    \/ StartConvert
    \/ Metadata
    \/ Stylesheet
    \/ Toc
    \/ Formatter
    \/ Pandoc
    \/ PostRead
    \/ ProcessImages
    \/ \E i \in 1..Len(tasks) : Acquire(i)
    \/ \E i \in 1..Len(tasks) : FetchOk(i)
    \/ \E i \in 1..Len(tasks) : FetchFailed(i)
    \/ Transform
    \/ WriteOutput

\* convert, called up to MaxRuns times
Spec == Init /\ [][Next]_vars

NextPost ==
    \/ PostRead
    \/ ProcessImages
    \/ \E i \in 1..Len(tasks) : Acquire(i)
    \/ \E i \in 1..Len(tasks) : FetchOk(i)
    \/ \E i \in 1..Len(tasks) : FetchFailed(i)
    \/ Transform
    \/ WriteOutput

\* one call of HtmlPostProcessor.process, on any rendered document
SpecPost == InitPost /\ [][NextPost]_vars

NextSource ==
    \/ Metadata
    \/ Stylesheet
    \/ Toc

\* the stages of one call that read and write the source file
SpecSource == InitSource /\ [][NextSource]_vars

NextCache ==
    \/ Next
    \/ Modify
    \/ Chmod

\* convert, called up to MaxRuns times on a source file that changes
SpecCache == InitCache /\ [][NextCache]_vars

\* the steps the code itself brings to an end: file and tree operations,
\* and the fetches, which a ClientTimeout bounds (30 seconds for the
\* stylesheet, download_timeout for the images).  PandocConverter and
\* MarkdownFormatter await process.communicate() without a timeout: they
\* return when the external process exits, which nothing guarantees.
\* (The calls of the model pass no git_repo_basedir, so no git command is
\* awaited in the stylesheet stage.)
Fairness ==
    /\ WF_vars(Metadata \/ Stylesheet \/ Toc \/ PostRead \/ ProcessImages
                  \/ Transform \/ WriteOutput)
    /\ WF_vars(\E i \in 1..Len(tasks) : FetchOk(i) \/ FetchFailed(i))

\* convert, with the progress its awaits guarantee
SpecLive == Init /\ [][Next]_vars /\ Fairness

NextText ==
    \/ ConvertTextNode

\* _convert_urls_to_links on any text node
SpecText == InitText /\ [][NextText]_vars

(***************************************************************************)
(* Two calls of convert at the same time, by one converter, on different   *)
(* source files and different output files of one output directory.  The   *)
(* first call is the one of the actions above.  The second runs the same   *)
(* stages on its own context, which derives temp_output.html, the images   *)
(* and the styles directory from output_file.parent as the first does.     *)
(* Neither rendered document holds an external image, so _process_images   *)
(* creates no task and leaves the tree as it is.                           *)
(***************************************************************************)
\* the second call's md_file (it holds no TOC), and what pandoc renders
\* from it
OtherSource == SourceFile(<< HeadingU, DescriptionD >>)
OtherRendered == Html(TRUE, PandocHead, << Elem("text", TextUrl) >>, FALSE)

\* _get_file_hash of the second file: the path is part of the fingerprint
OtherFileHash == << "other", OtherSource.mtime, Size(OtherSource) >>

\* the transformations of process after _process_images
Transformed(s) ==
    OptimizeHtmlStructure(InjectCustomStyles(AddOasisLogo(ConvertUrlsToLinks(s), cfg)))

\* convert(md_file, output_file) is called twice before either call has
\* run its first stage; the output directory holds the stylesheet
InitPair ==
    /\ cfg = DefaultConfig
    /\ source = SourceFile(<< HeadingT >>)
    /\ rendered = Html(TRUE, PandocHead, << Elem("img", ImgRel) >>, FALSE)
    /\ args = [format_markdown |-> FALSE, convert_to_html |-> TRUE]
    /\ run = 1
    /\ pc = "metadata"
    /\ started = <<>>
    /\ finished = <<>>
    /\ raised = "none"
    /\ cause = "none"
    /\ error = "none"
    /\ meta = NoMeta
    /\ cache = {}
    /\ stylesheet = "complete"
    /\ images = NoImages
    /\ temp = NoFile
    /\ output = NoFile
    /\ soup = NoSoup
    /\ tasks = <<>>
    /\ requests = NoRequests
    /\ download = "none"
    /\ before = [images |-> images, output |-> output, temp |-> temp]
    /\ outputs = <<>>
    /\ text_node = NoTextNode
    /\ siblings = <<>>
    /\ other = [NoOther EXCEPT !.pc = "metadata"]

\* what the second call leaves alone of the first call's state
callVars ==
    << source, args, run, pc, started, finished, raised, cause, error, meta, output,
       postVars, download, before, outputs >>

\* MetadataExtractor.process of the second call
OtherMetadata ==
    /\ other.pc = "metadata"
    /\ IF \E e \in cache : e.key = OtherFileHash
       THEN /\ other' = [other EXCEPT
                  !.pc = "stylesheet",
                  !.meta = (CHOOSE e \in cache : e.key = OtherFileHash).data]
            /\ UNCHANGED cache
       ELSE /\ other' = [other EXCEPT !.pc = "stylesheet", !.meta = Extract(OtherSource)]
            /\ cache' = cache \cup {[key |-> OtherFileHash, data |-> Extract(OtherSource)]}
    /\ UNCHANGED << envVars, linkVars, callVars, stylesheet, images, temp >>

\* StylesheetManager.process of the second call
OtherStylesheet ==
    /\ other.pc = "stylesheet"
    /\ \/ /\ stylesheet # "absent"
          /\ other' = [other EXCEPT !.pc = "toc"]
          /\ UNCHANGED stylesheet
       \/ /\ stylesheet = "absent"
          /\ stylesheet' = "complete"
          /\ other' = [other EXCEPT !.pc = "toc"]
       \/ /\ stylesheet = "absent"
          /\ \/ UNCHANGED stylesheet
             \/ stylesheet' = "partial"
          /\ other' = [other EXCEPT !.pc = "failed"]
    /\ UNCHANGED << envVars, linkVars, callVars, cache, images, temp >>

\* TOCProcessor.process of the second call: no line of its file is a TOC
\* entry, nothing is written
OtherToc ==
    /\ other.pc = "toc"
    /\ TocEntries(OtherSource.lines) = {}
    /\ other' = [other EXCEPT !.pc = "pandoc"]
    /\ UNCHANGED << envVars, linkVars, callVars, cache, fsVars >>

\* PandocConverter.process of the second call: output_file.parent /
\* 'temp_output.html' is the path the first call writes to as well
OtherPandoc ==
    /\ other.pc = "pandoc"
    /\ IF stylesheet = "absent"
       THEN /\ other' = [other EXCEPT !.pc = "failed"]
            /\ UNCHANGED temp
       ELSE \/ /\ temp' = OtherRendered
               /\ other' = [other EXCEPT !.pc = "postprocess"]
            \/ /\ other' = [other EXCEPT !.pc = "failed"]
               /\ UNCHANGED temp
    /\ UNCHANGED << envVars, linkVars, callVars, cache, stylesheet, images >>

\* HtmlPostProcessor.process of the second call, up to the opening of the
\* output file: it reads what is at temp_output.html
OtherPostRead ==
    /\ other.pc = "postprocess"
    /\ IF temp.kind # "html"
       THEN other' = [other EXCEPT !.pc = "failed"]
       ELSE other' = [other EXCEPT
                !.pc = "write",
                !.soup = Transformed(AddMetaTags(Parse(temp), other.meta))]
    /\ UNCHANGED << envVars, linkVars, callVars, cache, fsVars >>

\* the second call writes its output file and unlinks temp_output.html; or
\* the write fails, before or after open truncated the file
OtherWrite ==
    /\ other.pc = "write"
    /\ \/ /\ other' = [other EXCEPT !.pc = "done", !.output = Serialize(other.soup)]
          /\ temp' = NoFile
       \/ /\ other' = [other EXCEPT !.pc = "failed"]
          /\ UNCHANGED temp
       \/ /\ other' = [other EXCEPT !.pc = "failed", !.output = PartialFile]
          /\ UNCHANGED temp
    /\ UNCHANGED << envVars, linkVars, callVars, cache, stylesheet, images >>

NextPair ==
    \/ Metadata
    \/ Stylesheet
    \/ Toc
    \/ Pandoc
    \/ PostRead
    \/ ProcessImages
    \/ Transform
    \/ WriteOutput
    \/ OtherMetadata
    \/ OtherStylesheet
    \/ OtherToc
    \/ OtherPandoc
    \/ OtherPostRead
    \/ OtherWrite

\* two calls of convert, interleaved at their awaits
SpecPair == InitPair /\ [][NextPair]_vars

(***************************************************************************)
(* Properties.                                                             *)
(***************************************************************************)
IsPrefix(p, q) == Len(p) <= Len(q) /\ \A k \in 1..Len(p) : p[k] = q[k]

\* the stage order of a call with arguments a
StageOrder(a) ==
    << "metadata", "stylesheet", "toc" >>
    \o (IF a.format_markdown THEN << "formatter" >> ELSE << >>)
    \o (IF a.convert_to_html THEN << "pandoc", "postprocess" >> ELSE << >>)

\* C1: the stages of a call are entered in the order metadata, stylesheet,
\* toc, formatter (only with format_markdown), pandoc, postprocess (only
\* with convert_to_html); a stage is entered only when every stage entered
\* before it has returned; and once a stage has raised, it is the last
\* stage that was entered.
C1_StageOrder ==
    /\ IsPrefix(started, StageOrder(args))
    /\ IsPrefix(finished, started)
    /\ Len(started) <= Len(finished) + 1
    /\ raised # "none" =>
          /\ pc = "failed"
          /\ Len(started) = Len(finished) + 1
          /\ started[Len(started)] = raised

\* C1's case: the formatter raised in a call that asked for HTML
C1_Witness ==
    /\ raised = "formatter"
    /\ args.convert_to_html
    /\ started = << "metadata", "stylesheet", "toc", "formatter" >>

\* C2: when the stylesheet was missing and its download failed, the call
\* has failed in the stylesheet stage, neither pandoc nor post-processing
\* was entered, and the output file is what it was before the call.
C2_StylesheetFailureAborts ==
    download = "failed" =>
        /\ pc = "failed"
        /\ raised = "stylesheet"
        /\ \A k \in 1..Len(started) : started[k] \notin {"pandoc", "postprocess"}
        /\ output = before.output

\* C2's case: the download failed in a call that asked for HTML
C2_Witness ==
    /\ download = "failed"
    /\ args.convert_to_html
    /\ stylesheet = "absent"

\* _process_images has created its tasks
Dispatched == pc \in {"gather", "write", "done"} \/ (pc = "failed" /\ cause = "write")

\* the img element i of the rendered document gets a download task
Localizable(i) == IsTask(rendered.body[i])

\* the relative path img element i of the rendered document resolves to
LocalPath(i) == RelativePath(Filename(rendered.body[i].src))

\* C3: an image whose fetch failed is no longer in the tree; the failure
\* never fails the stage (only reading the rendered file or writing the
\* output does); and the document written at the end is the tree, in which
\* no external image is left but the inserted logo.
C3_FailedImageRemoved ==
    /\ \A i \in 1..Len(tasks) : tasks[i].res = "failed" => ~Present(i)
    /\ raised = "postprocess" => cause \in {"read", "write"}
    /\ (pc = "done" /\ args.convert_to_html) =>
          /\ output = Serialize(soup)
          /\ \A k \in 1..Len(output.body) :
                IsTask(output.body[k]) => k = 1 /\ output.body[k].src = cfg.logo_img_tag

\* C3's case: post-processing has written the output after a fetch failed
C3_Witness ==
    /\ pc = "done"
    /\ output.kind = "html"
    /\ \E i \in 1..Len(tasks) : tasks[i].res = "failed"

\* C4: at every moment of image localization, of the images that have a
\* task exactly those whose own fetch failed are removed, those whose own
\* fetch succeeded (or was answered by the cache) carry their own local
\* path, those whose fetch is still pending are in the tree untouched; the
\* other images of the rendered body stay as they are.
C4_IsolatedFailures ==
    Dispatched =>
        \A i \in 1..Len(tasks) :
            IF Localizable(i)
            THEN /\ tasks[i].res = "failed" <=> ~Present(i)
                 /\ tasks[i].res \in {"ok", "cached"} => NodeOf(i).src = LocalPath(i)
                 /\ tasks[i].res = "none" => NodeOf(i).src = rendered.body[i].src
            ELSE rendered.body[i].kind = "img" =>
                    Present(i) /\ NodeOf(i).src = rendered.body[i].src

\* C4's case: one fetch has failed, then another one succeeded
C4_Witness ==
    \E i, j \in 1..Len(tasks) :
        /\ tasks[i].res = "failed"
        /\ tasks[j].res = "ok"
        /\ tasks[i].at < tasks[j].at

\* C5: with caching enabled, an image whose derived file was in the images
\* directory when the call began is resolved without a request for that
\* filename, with the file left as it was, and carries the relative path
\* images/<filename>; so does every other image of that filename.
C5_CacheHit ==
    (Dispatched /\ cfg.cache_images) =>
        \A i \in 1..Len(tasks) :
            (Localizable(i) /\ before.images[Filename(rendered.body[i].src)] # NoFile) =>
                /\ tasks[i].res = "cached"
                /\ requests[Filename(rendered.body[i].src)] = 0
                /\ images[Filename(rendered.body[i].src)]
                      = before.images[Filename(rendered.body[i].src)]
                /\ Present(i)
                /\ NodeOf(i).src = LocalPath(i)

\* C5's case: the same cached URL was resolved twice
C5_Witness ==
    /\ Dispatched
    /\ cfg.cache_images
    /\ \E i, j \in 1..Len(tasks) :
          /\ i < j
          /\ rendered.body[i] = rendered.body[j]
          /\ tasks[i].res = "cached"
          /\ tasks[j].res = "cached"

\* C6: in one call, at most one request is issued per derived filename.
C6_FetchedAtMostOnce == \A f \in Filenames : requests[f] <= 1

\* the body image localization leaves, computed from the rendered body and
\* each image's own outcome alone
ExpectedBody ==
    LET parsed == Parse(rendered).body
        own(n) == IF tasks[n.id].res \in {"ok", "cached"}
                  THEN Node(n.id, n.kind, LocalPath(n.id))
                  ELSE n
        kept == SelectSeq(parsed, LAMBDA n : tasks[n.id].res # "failed")
    IN  [k \in 1..Len(kept) |-> own(kept[k])]

\* C7: when all fetches have completed, in whatever order, the body is the
\* rendered body with every image replaced by the result of its own fetch.
C7_OrderIndependent == (pc = "gather" /\ AllDone) => soup.body = ExpectedBody

\* C7's case: two downloads completed in the reverse of their order in the
\* document, with different results
C7_Witness ==
    /\ pc = "gather"
    /\ AllDone
    /\ \E i, j \in 1..Len(tasks) :
          /\ i < j
          /\ tasks[j].at > 0
          /\ tasks[j].at < tasks[i].at
          /\ tasks[i].res # tasks[j].res

\* C8: never more than max_concurrent_downloads fetches are in flight.
C8_BoundedInFlight == Cardinality(InFlight) <= cfg.max_concurrent_downloads

\* C8's case: the pool is full and a further image waits for a connection
C8_Witness ==
    /\ Cardinality(InFlight) = cfg.max_concurrent_downloads
    /\ \E i \in 1..Len(tasks) : tasks[i].st = "waiting"

\* the head holds no two meta tags of one name and no two stylesheet links
NoDuplicateHeadTags(doc) ==
    \A k, l \in 1..Len(doc.head) :
        (k < l /\ doc.head[k].tag \in {"meta", "link"} /\ doc.head[k].tag = doc.head[l].tag)
            => doc.head[k].name # doc.head[l].name

\* an image showing the logo: one the marker names, the configured logo,
\* or the configured logo's local copy
IsLogoImage(e) ==
    /\ e.kind = "img"
    /\ \/ IsOasisLogo(e.src)
       \/ e.src = cfg.logo_img_tag
       \/ e.src = RelativePath(Filename(cfg.logo_img_tag))

LogoCount(body) == Cardinality({k \in 1..Len(body) : IsLogoImage(body[k])})

\* C9: with caching enabled, the second post-processing of the same
\* rendered input writes the document the first one wrote, and a written
\* document holds no duplicated meta tag, stylesheet link or logo.
C9_Idempotent ==
    cfg.cache_images =>
        /\ Len(outputs) >= 2 => outputs[2] = outputs[1]
        /\ \A k \in 1..Len(outputs) :
              NoDuplicateHeadTags(outputs[k]) /\ LogoCount(outputs[k].body) <= 1

\* C10: after logo insertion, a document that came in with at most one
\* logo image (a rendered document, or one already post-processed) holds
\* at most one logo image.
C10_AtMostOneLogo ==
    (pc \in {"write", "done"} /\ args.convert_to_html /\ LogoCount(rendered.body) <= 1)
        => LogoCount(soup.body) <= 1

\* the characters of the pieces, in document order
RECURSIVE Concat(_)
Concat(pieces) ==
    IF pieces = << >> THEN << >> ELSE Head(pieces).string \o Concat(Tail(pieces))

\* a bare URL: a scheme, at least one more character, no whitespace
IsUrlToken(string) ==
    /\ Len(string) >= 2
    /\ string[1] \in Schemes
    /\ \A i \in 1..Len(string) : string[i] \notin Whitespace

\* a scheme followed by a character that is not whitespace occurs
HoldsUrl(string) ==
    \E i \in 1..(Len(string) - 1) : string[i] \in Schemes /\ string[i + 1] \notin Whitespace

C12_TocTitleInserted ==
    [][ (pc = "toc" /\ TocEntries(source.lines) # {} /\ TocTitles(source.lines) = {}) =>
            \E k \in 1..Len(source.lines) :
                /\ IsTocEntry(source.lines[k])
                /\ \A j \in 1..(k - 1) : ~IsTocEntry(source.lines[j])
                /\ Len(source'.lines) = Len(source.lines) + 1
                /\ \A j \in 1..(k - 1) : source'.lines[j] = source.lines[j]
                /\ \A j \in k..Len(source.lines) : source'.lines[j + 1] = source.lines[j]
                /\ Cardinality(TocTitles(source'.lines)) = 1
                /\ LET first == source.lines[1]
                       n == CountHashes(first)
                       level == IF n >= 1 /\ Len(first) > n /\ first[n + 1] = " "
                                THEN n + 1 ELSE 2
                   IN  source'.lines[k] =
                          [i \in 1..level |-> "#"] \o << " ", "Table of Contents" >>
                /\ source'.exists /\ source'.readable
      ]_vars

\* C12's case: under a leading heading of level 2, a title of level 3 was
\* put before the first of two entry lines
C12_Witness ==
    /\ pc = "done"
    /\ source.lines = << SubHeading, TocTitle(3), TocEntry, TocEntry >>

\* a 'Table of Contents' heading line, in either letter case
IsTitleLine(line) ==
    \E n \in 1..6, gap \in {<< >>, << " " >>},
       words \in {"Table of Contents", "table of contents"} :
        line = [i \in 1..n |-> "#"] \o gap \o << words >>

\* the lines need no title: one is there, or there is no entry line
Normalized(lines) ==
    \/ \E i \in 1..Len(lines) : IsTitleLine(lines[i])
    \/ \A i \in 1..Len(lines) : ~IsTocEntry(lines[i])

\* C13: a TOC stage that finds a title line (in any letter case) or no
\* entry line leaves the source file as it is; and the source file a TOC
\* stage leaves behind holds a title line or no entry line, so the stage
\* of a later call leaves it as it is.
C13_TocIdempotent ==
    [][ pc = "toc" =>
            /\ Normalized(source.lines) => source' = source
            /\ Normalized(source'.lines)
      ]_vars

\* C13's case: the TOC stage of the second call has run on the source
\* file in which the first call inserted the title
C13_Witness ==
    /\ run = 2
    /\ \E k \in 1..Len(finished) : finished[k] = "toc"
    /\ Cardinality(cache) = 2
    /\ source.lines = << HeadingT, DescriptionD, TocTitle(2), TocEntry >>

\* C14: a call that has succeeded in producing HTML has left the complete
\* serialized document in the output file, and a call that has failed has
\* left the output file as it found it.
C14_OutputNeverHalfWritten ==
    /\ (pc = "done" /\ args.convert_to_html) => output = Serialize(soup)
    /\ pc = "failed" => output = before.output

\* C15: a call that has failed has raised ConversionError, and the stage
\* that failed and the cause are known.
C15_StructuredFailure ==
    pc = "failed" =>
        /\ error = "ConversionError"
        /\ raised \in {"metadata", "stylesheet", "toc", "formatter", "pandoc", "postprocess"}
        /\ cause # "none"

C17_CacheHitIsFresh ==
    (pc = "stylesheet" /\ source.readable) => meta = Extract(source)

\* C18: the metadata stage fails exactly when the source file is missing
\* or cannot be read, and convert then enters no further stage; on a file
\* that can be read, a title or a description that is nowhere in the file
\* comes out as "-".
C18_UnreadableSourceAborts ==
    [][ pc = "metadata" =>
            /\ pc' = "failed" <=> ~(source.exists /\ source.readable)
            /\ pc' = "failed" => raised' = "metadata" /\ started' = << "metadata" >>
            /\ (pc' # "failed" /\ \A i \in 1..Len(source.lines) : source.lines[i][1] # "#")
                  => meta'.title = "-"
            /\ (pc' # "failed" /\ \A i \in 1..Len(source.lines) :
                                     \A j \in 1..Len(source.lines[i]) :
                                        source.lines[i][j] # "description:")
                  => meta'.description = "-"
      ]_vars

\* a line that is a heading of level 1: one '#', a space, text
IsTopHeading(line) ==
    /\ Len(line) >= 3
    /\ line[1] = "#"
    /\ line[2] = " "
    /\ line[3] \notin {"#", " "}

\* a line that is a comment holding a description
IsDescriptionComment(line) ==
    /\ Len(line) >= 3
    /\ line[1] = "<!--"
    /\ line[Len(line)] = "-->"
    /\ \E i \in 2..(Len(line) - 1) : line[i] = "description:"

\* what lies between 'description:' and '-->' in a description comment
DescriptionOf(line) ==
    LET i == Min({j \in 2..(Len(line) - 1) : line[j] = "description:"})
    IN  Join(Strip(SubSeq(line, i + 1, Len(line) - 1)))

\* C19: the title the metadata stage extracts is the text of the first
\* heading line of level 1, or "-" when no line is one; the description is
\* that of the first description comment, or "-" when there is none.
C19_Extraction ==
    pc = "stylesheet" =>
        LET headings == {i \in 1..Len(source.lines) : IsTopHeading(source.lines[i])}
            comments == {i \in 1..Len(source.lines) : IsDescriptionComment(source.lines[i])}
        IN  /\ meta.title =
                  IF headings = {} THEN "-"
                  ELSE Join(Strip(SubSeq(source.lines[Min(headings)], 3,
                                         Len(source.lines[Min(headings)]))))
            /\ meta.description =
                  IF comments = {} THEN "-"
                  ELSE DescriptionOf(source.lines[Min(comments)])

\* C20: a call of convert that has started returns or raises.
C20_Terminates ==
    [](pc \notin {"idle", "done", "failed"} => <>(pc \in {"done", "failed"}))

\* C21: a file at the stylesheet's or at an image's destination holds the
\* complete bytes of a fetch that succeeded.
C21_AtomicAssetWrites ==
    /\ stylesheet # "partial"
    /\ \A f \in Filenames : images[f] # PartialFile

\* the download tasks of the running call that have not run to their end
Unfinished == {i \in 1..Len(tasks) : tasks[i].st \in {"waiting", "inflight"}}

\* C22: outside the image step no download task of the call is unfinished:
\* the links, the logo, the stylesheet link, the structural repair and the
\* writing of the output come after every task has ended; and a stage is
\* entered only when every stage entered before it has returned.
C22_FanInBeforeNextStep ==
    /\ pc # "gather" => Unfinished = {}
    /\ IsPrefix(finished, started)
    /\ Len(started) <= Len(finished) + 1
    /\ Len(started) = Len(finished) + 1 => pc \in {"images", "gather", "write", "failed"}

\* both downloads of a document with two images have completed, the second
\* after the first, and the transformations after them have been applied
C22_Witness ==
    /\ pc = "write"
    /\ Len(tasks) = 2
    /\ \E i, j \in 1..2 : tasks[i].at = 1 /\ tasks[j].at = 2
    /\ soup.lang

\* the text node lies in a link, in inline code or in a code block, at
\* whatever depth
InLinkOrCode(node) ==
    \/ node.parent \in {"a", "code", "pre"}
    \/ \E k \in 1..Len(node.above) : node.above[k] \in {"a", "code", "pre"}

\* C23: a text node that has an a, code or pre element among its ancestors
\* is left where it is, and no link is created from it.
C23_NoLinkInsideLinkOrCode ==
    (pc = "linked" /\ InLinkOrCode(text_node)) =>
        text_node.attached /\ siblings = << >>

\* the document links the stylesheet by its path relative to the output
HasStylesheetLink(doc) ==
    \E k \in 1..Len(doc.head) :
        doc.head[k] = HeadTag("link", "stylesheet", StylesheetRelative)

\* C24: when the post-processing stage has returned, the output document
\* holds the link to the stylesheet.
C24_OutputHasStylesheetLink ==
    (pc = "done" /\ finished # << >> /\ finished[Len(finished)] = "postprocess") =>
        output.kind = "html" /\ HasStylesheetLink(output)

\* C25: once the meta tags are injected into a document that has a head,
\* the head holds author, generator, charset, viewport, then the
\* description tag when a description was extracted, then the children
\* the head had before, in their order.
C25_MetaTagOrder ==
    (pc \in {"images", "gather"} /\ soup.hasHead) =>
        soup.head = << MetaAuthor, MetaGenerator, MetaCharset, MetaViewport >>
                       \o (IF meta.description # "-"
                           THEN << MetaDescription(meta.description) >>
                           ELSE << >>)
                       \o temp.head

\* the tags are injected into the head pandoc wrote, with a description
C25_Witness ==
    /\ pc = "images"
    /\ soup.hasHead
    /\ temp.head = PandocHead
    /\ meta.description = "d"
    /\ soup.head[5] = MetaDescription("d")
    /\ Len(soup.head) = Len(PandocHead) + 5

\* the renderer has returned in the running call
RendererRan == \E k \in 1..Len(finished) : finished[k] = "pandoc"

\* C26: when a call of convert that ran the renderer has ended, by
\* returning or by raising, temp_output.html is gone.
C26_TempFileRemoved ==
    (pc \in {"done", "failed"} /\ RendererRan) => temp = NoFile

\* the document process writes for a rendered document without external
\* images
PostProcessed(doc, m) == Serialize(Transformed(AddMetaTags(Parse(doc), m)))

\* C27: of two calls that run at the same time, each writes the
\* post-processed rendering of its own source file.
C27_NoInterference ==
    /\ pc = "done" => output = PostProcessed(rendered, Extract(source))
    /\ other.pc = "done" =>
           other.output = PostProcessed(OtherRendered, Extract(OtherSource))

\* img element i of the rendered document is one the localization has to
\* resolve: an absolute http or https URL that is not the configured logo
ToResolve(i) ==
    /\ rendered.body[i].kind = "img"
    /\ IsExternalUrl(rendered.body[i].src)
    /\ rendered.body[i].src # cfg.logo_img_tag

\* C28: the images resolved (looked up in the images directory or
\* fetched) are the external ones that are not the configured logo; one
\* resolved with success has the relative local path as its src; every
\* other img element is in the tree with the src it was rendered with.
C28_ExternalImagesOnly ==
    pc \in {"gather", "write"} =>
        \A i \in 1..Len(rendered.body) :
            /\ tasks[i].st # "none" <=> ToResolve(i)
            /\ tasks[i].res \in {"ok", "cached"} =>
                   Present(i) /\ NodeOf(i).src = LocalPath(i)
            /\ (rendered.body[i].kind = "img" /\ ~ToResolve(i)) =>
                   /\ Present(i)
                   /\ pc = "gather" => NodeOf(i).src = rendered.body[i].src

\* C29: when post-processing has returned, the file behind every image
\* that was resolved to a local path holds the bytes of the URL that image
\* had in the rendered document.
C29_LocalFileIsOwnImage ==
    (pc = "done" /\ output.kind = "html") =>
        \A i \in 1..Len(rendered.body) :
            (Localizable(i) /\ tasks[i].res \in {"ok", "cached"}) =>
                images[Filename(rendered.body[i].src)] = Bytes(rendered.body[i].src)

\* C30: autolinking places no node outside the parent element of the text
\* node it replaces: the pieces of the text stay children of that parent.
C30_ReplacedInPlace ==
    pc = "linked" => siblings = << >>

====
